---- MODULE Spec2Model ----
(***************************************************************************)
(* Animation-to-video export of the molstar fork.                          *)
(*                                                                         *)
(* Three export entry points are modelled, one job per behaviour:          *)
(*   "mp4"   encodeMp4Animation   src/src/extensions/mp4-export/encoder.ts *)
(*   "webm"  encodeWebmAnimation  src/unnamed/part_003 lines 129-230       *)
(*           (two ffmpeg outputs, errors caught and logged)                *)
(*   "webmP" encodeWebmAnimation  src/unnamed/part_003 lines 377-464       *)
(*           (wrapped in a Promise, one ffmpeg output)                     *)
(*                                                                         *)
(* The collaborators (clock, image pass, animation manager, encoder,       *)
(* task context) are modelled by the state they expose and by the calls    *)
(* on them either returning or throwing.                                   *)
(*                                                                         *)
(* Times are exact rationals [num, den]; den = 0 is the NaN that 0/0       *)
(* yields in the source.                                                   *)
(***************************************************************************)
EXTENDS Integers, Sequences, FiniteSets, TLC

\* ------------------------------------------------------------ bounds
CanvasSize == 4
MaxDurationSteps == 2
DurationStep == 50
MaxFiles == 2

\* ------------------------------------------------- program constants
DefaultFps == 30
WebmCrf == 50
MsPerSecond == 1000

\* ------------------------------------------------------ input domains
Functions == {"mp4", "webm", "webmP"}
NoColor == "undefined"
\* 0 stands for an unset frame rate (the source tests it with !params.fps)
FpsValues == {0, 10}
\* 0 stands for an unset quantizationParameter (tested with if (params.quantizationParameter))
QuantizationValues == {0, 18}
Durations == {DurationStep * k : k \in 0..MaxDurationSteps}
DurationResults ==
    {[defined |-> FALSE, ms |-> 0]} \cup {[defined |-> TRUE, ms |-> d] : d \in Durations}
Viewports ==
    [x : {0, 1}, y : {0}, width : {CanvasSize - 1, CanvasSize},
     height : {CanvasSize - 1, CanvasSize, CanvasSize + 1}]
PassPostprocessing == [occlusion |-> "on", outline |-> "off"]
NoOverride == [k \in {} |-> "off"]
PostOverrides == {NoOverride, [k \in {"outline"} |-> "on"]}
\* 1: the in-process encoder (mp4) or the first ffmpeg command; 2: the second one
EncoderIds == {1, 2}
NoEncoder ==
    [state |-> "none", received |-> <<>>, width |-> 0, height |-> 0, frameRate |-> 0,
     quantizationParameter |-> 0]

VARIABLES
    fn,                \* which export function the job runs
    params,            \* the Mp4EncoderParams object (params.fps is assigned by webm)
    duration,          \* what PluginStateAnimation.getDuration returns
    loopIsAnimating,   \* plugin.animationLoop.isAnimating
    loopTime,          \* the clock: time of the last tick / resetTime
    rendered,          \* the scene the last synchronous tick drew
    canvasProps,       \* plugin.canvas3d.props (background colour, transparency)
    passProps,         \* params.pass.props (postprocessing)
    animState,         \* plugin.managers.animation: "stopped" | "playing"
    pc,                \* position in the export function
    local,             \* the function's local variables
    images,            \* webm: the captured frames, in capture order
    enc,               \* the encoder handles the job created
    result,            \* promise of the export function: pending | resolved | rejected
    raised,            \* the error the job's body ended with ("none" if none)
    pending,           \* mp4: completion the finally block was entered with
    ticks,             \* arguments of every loop.tick call, in call order
    captures,          \* frame of every pass.getImageData call, in call order
    calls,             \* names of the calls made on the collaborators, in order
    sampled,           \* the sampling loop ran to its end (i > N)
    progress,          \* what ctx.update was told: the maximum and each current value
    uncaught,          \* an 'error' event was emitted with no listener
    batch,             \* processFilesInDirectory: the file in work, the states of
                       \* the ffmpeg processes of the files before it
    pre                \* the presentation state from before the job

vars == <<fn, params, duration, loopIsAnimating, loopTime, rendered, canvasProps, passProps,
          animState, pc, local, images, enc, result, raised, pending, ticks,
          captures, calls, sampled, progress, uncaught, batch, pre>>

plugin == <<loopIsAnimating, loopTime, rendered, canvasProps, passProps, animState>>
logs == <<ticks, captures, calls>>

\* ------------------------------------------------------------ helpers
CeilDiv(a, b) == (a + b - 1) \div b

\* Math.ceil(durationMs / 1000 * fps)
SampleCount(durationMs, fps) == CeilDiv(durationMs * fps, MsPerSecond)

\* i * dt with dt = durationMs / N
TickTime(k, durationMs, n) == [num |-> k * durationMs, den |-> n]

\* a frame rate left unset: no default applied
NoDefaultFps(f) == f

\* if (!params.fps) params.fps = 30 (part_003:135); for the in-process encoder
\* encoder.frameRate keeps its default, 30, unless params.fps is set (encoder.ts:76)
EffectiveFps(f) == IF f # 0 THEN f ELSE DefaultFps

\* validateViewport's condition for throwing
ViewportExceeds(p) ==
    \/ p.viewport.x + p.viewport.width > p.width
    \/ p.viewport.y + p.viewport.height > p.height

\* dimensions must be a multiple of 2
Even(v) == IF v % 2 # 0 THEN v - 1 ELSE v

NormalizedViewport(vp) ==
    [x |-> vp.x, y |-> vp.y, width |-> Even(vp.width), height |-> Even(vp.height)]

\* ParamDefinition.merge(PostprocessingParams, base, over): keys of over win
Merge(base, over) ==
    [k \in DOMAIN base |-> IF k \in DOMAIN over THEN over[k] ELSE base[k]]

InitLocal ==
    [i |-> 0, N |-> 0, durationMs |-> 0, fps |-> 0, wasAnimating |-> FALSE,
     stoppedAnimation |-> TRUE, finalized |-> FALSE,
     savedBackground |-> NoColor, savedTransparent |-> FALSE,
     viewport |-> [x |-> 0, y |-> 0, width |-> 0, height |-> 0]]

\* no directory is being processed: the export function is called directly
NoBatch == [file |-> 0, animations |-> {}, disposed |-> {}, prior |-> <<>>]

Init ==
    /\ batch = NoBatch
    /\ fn \in Functions
    /\ params \in [width : {CanvasSize}, height : {CanvasSize}, viewport : Viewports,
                   fps : FpsValues, quantizationParameter : QuantizationValues,
                   customBackground : {NoColor, "white"},
                   postprocessing : PostOverrides]
    /\ duration \in DurationResults
    /\ loopIsAnimating \in BOOLEAN
    /\ loopTime = [num |-> 0, den |-> 1]
    /\ rendered = [time |-> [num |-> 0, den |-> 1], currentFrame |-> -1]
    /\ canvasProps \in [backgroundColor : {"black"}, transparentBackground : BOOLEAN]
    /\ passProps = [postprocessing |-> PassPostprocessing]
    /\ animState = "stopped"
    /\ pc = "init"
    /\ local = InitLocal
    /\ images = <<>>
    /\ enc = [e \in EncoderIds |-> NoEncoder]
    /\ result = "pending"
    /\ raised = "none"
    /\ pending = "none"
    /\ ticks = <<>>
    /\ captures = <<>>
    /\ calls = <<>>
    /\ sampled = FALSE
    /\ progress = [max |-> 0, reported |-> <<>>]
    /\ uncaught = FALSE
    /\ pre = [isAnimating |-> loopIsAnimating, canvas |-> canvasProps,
              postprocessing |-> PassPostprocessing, fps |-> params.fps]

\* --------------------------------------------------- shared statements
\* an off-by-one loop condition, i < N
LoopContinuesExclusive(k, n) == k < n

\* the for loop's condition, i <= N
LoopContinues(k, n) == k <= n

\* the options object of loop.tick(i * dt, {...})
TickArgs(k, durationMs, n) ==
    [time |-> TickTime(k, durationMs, n), isSynchronous |-> TRUE, manualDraw |-> TRUE,
     currentFrame |-> k, frameCount |-> n]

\* params.pass.getImageData(width, height, normalizedViewport) on the drawn scene
ImageData(scene, vp) ==
    [currentFrame |-> scene.currentFrame, time |-> scene.time,
     width |-> vp.width, height |-> vp.height]

\* frames.unshift(frame): the newest frame put first
UnshiftFrame(frames, frame) == <<frame>> \o frames

\* encoder.addFrameRgba(image.data) / images.push(new Uint8Array(frame.data))
PushFrame(frames, frame) == Append(frames, frame)

\* the maximum declared as N, the last frame not counted
DeclaredShort(n) == [max |-> n, reported |-> <<0>>]

\* ctx.update({message: 'Rendering...', isIndeterminate: false, current: 0, max: N + 1})
Declared(n) == [max |-> n + 1, reported |-> <<0>>]

\* plugin.canvas3d?.setProps({renderer: {backgroundColor}, transparentBackground})
SetBackground(color, transparent) ==
    [backgroundColor |-> color, transparentBackground |-> transparent]

\* a restart that flips the loop instead of starting it
RestoreToggling(s, l, p) ==
    [canvasProps |-> IF p.customBackground # NoColor
                     THEN SetBackground(l.savedBackground, l.savedTransparent)
                     ELSE s.canvasProps,
     animState |-> IF ~l.stoppedAnimation THEN "stopped" ELSE s.animState,
     loopIsAnimating |-> IF l.wasAnimating THEN ~s.loopIsAnimating ELSE s.loopIsAnimating]

\* what lines 127-131 of encoder.ts leave of the plugin state s when every call in
\* them returns: canvas3d.setProps with the saved props if a custom background was
\* given, animation.stop() if (!stoppedAnimation), loop.start() if (wasAnimating)
Restore(s, l, p) ==
    [canvasProps |-> IF p.customBackground # NoColor
                     THEN SetBackground(l.savedBackground, l.savedTransparent)
                     ELSE s.canvasProps,
     animState |-> IF ~l.stoppedAnimation THEN "stopped" ELSE s.animState,
     loopIsAnimating |-> (s.loopIsAnimating \/ l.wasAnimating)]

\* the part of the plugin state the finally block acts on
Presentation ==
    [canvasProps |-> canvasProps, animState |-> animState,
     loopIsAnimating |-> loopIsAnimating]

\* ------------------------------------------------ encodeMp4Animation
Mp4Reject(kind) ==
    /\ pc' = "done"
    /\ result' = "rejected"
    /\ raised' = kind

Mp4Throw(kind) ==
    /\ pc' = "m_finally"
    /\ pending' = "throw"
    /\ raised' = kind

\* line 38: await ctx.update({message: 'Initializing...'})
Mp4Initializing ==
    /\ fn = "mp4" /\ pc = "init"
    /\ calls' = Append(calls, "ctx.update")
    /\ \/ pc' = "m_validate" /\ UNCHANGED <<result, raised>>
       \/ Mp4Reject("update")
    /\ UNCHANGED <<batch, fn, progress, params, duration, plugin, local, images, enc, pending, ticks,
                   captures, sampled, uncaught, pre>>

\* lines 40-44: validateViewport, getDuration
Mp4Validate ==
    /\ fn = "mp4" /\ pc = "m_validate"
    /\ \/ /\ ViewportExceeds(params)
          /\ Mp4Reject("viewport")
          /\ UNCHANGED local
       \/ /\ ~ViewportExceeds(params) /\ ~duration.defined
          /\ Mp4Reject("duration")
          /\ UNCHANGED local
       \/ /\ ~ViewportExceeds(params) /\ duration.defined
          /\ local' = [local EXCEPT !.durationMs = duration.ms]
          /\ pc' = "m_create"
          /\ UNCHANGED <<result, raised>>
    /\ UNCHANGED <<batch, fn, progress, params, duration, plugin, images, enc, pending, logs, sampled,
                   uncaught, pre>>

\* the encoder handle after lines 46-76: created, its fields assigned
NewEncoder(p, st) ==
    [state |-> st, received |-> <<>>,
     width |-> Even(p.viewport.width),
     height |-> Even(p.viewport.height),
     frameRate |-> EffectiveFps(p.fps),
     quantizationParameter |-> p.quantizationParameter]

\* the encoder created only after the pass props have been merged
Mp4CreateEncoderLate ==
    /\ fn = "mp4" /\ pc = "m_create"
    /\ calls' = Append(calls, "createEncoder")
    /\ passProps' = [postprocessing |-> Merge(passProps.postprocessing, params.postprocessing)]
    /\ \/ /\ Mp4Reject("encoderUnavailable")
          /\ UNCHANGED <<local, enc>>
       \/ /\ Mp4Reject("encoderUnavailable")
          /\ enc' = [enc EXCEPT ![1] = NewEncoder(params, "created")]
          /\ UNCHANGED local
       \/ /\ local' = [local EXCEPT !.viewport = NormalizedViewport(params.viewport)]
          /\ enc' = [enc EXCEPT ![1] = NewEncoder(params, "initialized")]
          /\ pc' = "m_setup"
          /\ UNCHANGED <<result, raised>>
    /\ UNCHANGED <<batch, fn, progress, params, duration, loopIsAnimating, loopTime, rendered,
                   canvasProps, animState, images, pending, ticks, captures,
                   sampled, uncaught, pre>>

\* lines 46-77: createH264MP4Encoder, normalizedViewport, encoder fields, initialize;
\* createH264MP4Encoder may reject (line 46) and encoder.initialize() may throw
\* (line 77), either ends the function before its try block
Mp4CreateEncoder ==
    /\ fn = "mp4" /\ pc = "m_create"
    /\ calls' = Append(calls, "createEncoder")
    /\ \/ /\ Mp4Reject("encoderUnavailable")
          /\ UNCHANGED <<local, enc>>
       \/ /\ Mp4Reject("encoderUnavailable")
          /\ enc' = [enc EXCEPT ![1] = NewEncoder(params, "created")]
          /\ UNCHANGED local
       \/ /\ local' = [local EXCEPT !.viewport = NormalizedViewport(params.viewport)]
          /\ enc' = [enc EXCEPT ![1] = NewEncoder(params, "initialized")]
          /\ pc' = "m_setup"
          /\ UNCHANGED <<result, raised>>
    /\ UNCHANGED <<batch, fn, progress, params, duration, plugin, images, pending, ticks, captures,
                   sampled, uncaught, pre>>

\* lines 79-86: wasAnimating, canvasProps, flags, pass.setProps(merge)
Mp4Setup ==
    /\ fn = "mp4" /\ pc = "m_setup"
    /\ local' = [local EXCEPT !.wasAnimating = loopIsAnimating,
                              !.savedBackground = canvasProps.backgroundColor,
                              !.savedTransparent = canvasProps.transparentBackground,
                              !.stoppedAnimation = TRUE,
                              !.finalized = FALSE]
    /\ passProps' = [postprocessing |-> Merge(passProps.postprocessing, params.postprocessing)]
    /\ calls' = Append(calls, "pass.setProps")
    /\ pc' = "m_try"
    /\ UNCHANGED <<batch, fn, progress, params, duration, loopIsAnimating, loopTime, rendered, canvasProps,
                   animState, images, enc, result, raised, pending, ticks, captures,
                   sampled, uncaught, pre>>

\* the clock reset but left running
Mp4KeepLoop ==
    /\ fn = "mp4" /\ pc = "m_try"
    /\ loopTime' = [num |-> 0, den |-> 1]
    /\ IF params.customBackground # NoColor
       THEN /\ canvasProps' = SetBackground(params.customBackground, FALSE)
            /\ calls' = calls \o <<"loop.resetTime", "canvas.setProps">>
       ELSE /\ UNCHANGED canvasProps
            /\ calls' = calls \o <<"loop.resetTime">>
    /\ pc' = "m_schedule"
    /\ UNCHANGED <<batch, fn, progress, params, duration, loopIsAnimating, rendered, passProps,
                   animState, local, images, enc, result, raised, pending, ticks, captures,
                   sampled, uncaught, pre>>

\* lines 89-94: loop.stop, loop.resetTime(0), custom background
Mp4StopLoop ==
    /\ fn = "mp4" /\ pc = "m_try"
    /\ loopIsAnimating' = FALSE
    /\ loopTime' = [num |-> 0, den |-> 1]
    /\ IF params.customBackground # NoColor
       THEN /\ canvasProps' = SetBackground(params.customBackground, FALSE)
            /\ calls' = calls \o <<"loop.stop", "loop.resetTime", "canvas.setProps">>
       ELSE /\ UNCHANGED canvasProps
            /\ calls' = calls \o <<"loop.stop", "loop.resetTime">>
    /\ pc' = "m_schedule"
    /\ UNCHANGED <<batch, fn, progress, params, duration, rendered, passProps, animState, local, images,
                   enc, result, raised, pending, ticks, captures, sampled, uncaught, pre>>

\* lines 96-101: fps, N, dt, ctx.update({current: 0, max: N + 1}), updateBackground
Mp4Schedule ==
    /\ fn = "mp4" /\ pc = "m_schedule"
    /\ local' = [local EXCEPT !.fps = enc[1].frameRate,
                              !.N = SampleCount(local.durationMs, enc[1].frameRate)]
    /\ calls' = Append(calls, "ctx.update")
    /\ progress' = Declared(SampleCount(local.durationMs, enc[1].frameRate))
    /\ \/ pc' = "m_play" /\ UNCHANGED <<pending, raised>>
       \/ Mp4Throw("update")
    /\ UNCHANGED <<batch, fn, params, duration, plugin, images, enc, result, ticks, captures,
                   sampled, uncaught, pre>>

\* playback started without clearing stoppedAnimation
Mp4PlayUnflagged ==
    /\ fn = "mp4" /\ pc = "m_play"
    /\ calls' = Append(calls, "animation.play")
    /\ \/ /\ animState' = "playing"
          /\ local' = [local EXCEPT !.i = 0]
          /\ pc' = "m_tick"
          /\ UNCHANGED <<pending, raised>>
       \/ /\ Mp4Throw("play")
          /\ UNCHANGED <<animState, local>>
    /\ UNCHANGED <<batch, fn, progress, params, duration, loopIsAnimating, loopTime, rendered, canvasProps,
                   passProps, images, enc, result, ticks, captures, sampled, uncaught, pre>>

\* lines 103-104: await animation.play(...); stoppedAnimation = false
Mp4Play ==
    /\ fn = "mp4" /\ pc = "m_play"
    /\ calls' = Append(calls, "animation.play")
    /\ \/ /\ animState' = "playing"
          /\ local' = [local EXCEPT !.stoppedAnimation = FALSE, !.i = 0]
          /\ pc' = "m_tick"
          /\ UNCHANGED <<pending, raised>>
       \/ /\ Mp4Throw("play")
          /\ UNCHANGED <<animState, local>>
    /\ UNCHANGED <<batch, fn, progress, params, duration, loopIsAnimating, loopTime, rendered, canvasProps,
                   passProps, images, enc, result, ticks, captures, sampled, uncaught, pre>>

\* lines 105-106: the loop condition and await loop.tick(i * dt, {...})
Mp4Tick ==
    /\ fn = "mp4" /\ pc = "m_tick"
    /\ \/ /\ LoopContinues(local.i, local.N)
          /\ ticks' = Append(ticks, TickArgs(local.i, local.durationMs, local.N))
          /\ calls' = Append(calls, "loop.tick")
          /\ \/ /\ loopTime' = TickTime(local.i, local.durationMs, local.N)
                /\ rendered' = [time |-> TickTime(local.i, local.durationMs, local.N),
                                currentFrame |-> local.i]
                /\ pc' = "m_capture"
                /\ UNCHANGED <<pending, raised>>
             \/ /\ Mp4Throw("tick")
                /\ UNCHANGED <<loopTime, rendered>>
          /\ UNCHANGED sampled
       \/ /\ ~LoopContinues(local.i, local.N)
          /\ sampled' = TRUE
          /\ pc' = "m_finish"
          /\ UNCHANGED <<loopTime, rendered, ticks, calls, pending, raised>>
    /\ UNCHANGED <<batch, fn, progress, params, duration, loopIsAnimating, canvasProps, passProps,
                   animState, local, images, enc, result, captures, uncaught, pre>>

\* lines 108-109: getImageData, encoder.addFrameRgba
Mp4Capture ==
    /\ fn = "mp4" /\ pc = "m_capture"
    /\ \/ /\ calls' = Append(calls, "pass.getImageData")
          /\ Mp4Throw("capture")
          /\ UNCHANGED <<captures, enc>>
       \/ /\ captures' = Append(captures, ImageData(rendered, local.viewport))
          /\ calls' = calls \o <<"pass.getImageData", "encoder.addFrameRgba">>
          /\ \/ /\ enc' = [enc EXCEPT ![1].received =
                              PushFrame(@, ImageData(rendered, local.viewport))]
                /\ pc' = "m_update"
                /\ UNCHANGED <<pending, raised>>
             \/ /\ Mp4Throw("encoder")
                /\ UNCHANGED enc
    /\ UNCHANGED <<batch, fn, progress, params, duration, plugin, local, images, result, ticks, sampled,
                   uncaught, pre>>

\* lines 111-114: if (ctx.shouldUpdate) await ctx.update({current: i + 1}); i++
\* (reading ctx.shouldUpdate is the per-sample point; a cancellation surfaces in
\* the ctx.update that follows it)
Mp4Update ==
    /\ fn = "mp4" /\ pc = "m_update"
    /\ \/ /\ calls' = Append(calls, "ctx.shouldUpdate")
          /\ local' = [local EXCEPT !.i = @ + 1]
          /\ pc' = "m_tick"
          /\ UNCHANGED <<progress, pending, raised>>
       \/ /\ calls' = calls \o <<"ctx.shouldUpdate", "ctx.update">>
          /\ progress' = [progress EXCEPT !.reported = Append(@, local.i + 1)]
          /\ local' = [local EXCEPT !.i = @ + 1]
          /\ pc' = "m_tick"
          /\ UNCHANGED <<pending, raised>>
       \/ /\ calls' = calls \o <<"ctx.shouldUpdate", "ctx.update">>
          /\ Mp4Throw("update")
          /\ UNCHANGED <<local, progress>>
    /\ UNCHANGED <<batch, fn, params, duration, plugin, images, enc, result, ticks, captures,
                   sampled, uncaught, pre>>

\* lines 115-117: ctx.update, await animation.stop(); stoppedAnimation = true
Mp4Finish ==
    /\ fn = "mp4" /\ pc = "m_finish"
    /\ \/ /\ calls' = Append(calls, "ctx.update")
          /\ Mp4Throw("update")
          /\ UNCHANGED <<animState, local>>
       \/ /\ calls' = calls \o <<"ctx.update", "animation.stop">>
          /\ \/ /\ animState' = "stopped"
                /\ local' = [local EXCEPT !.stoppedAnimation = TRUE]
                /\ pc' = "m_finalize"
                /\ UNCHANGED <<pending, raised>>
             \/ /\ Mp4Throw("stop")
                /\ UNCHANGED <<animState, local>>
    /\ UNCHANGED <<batch, fn, progress, params, duration, loopIsAnimating, loopTime, rendered, canvasProps,
                   passProps, images, enc, result, ticks, captures, sampled, uncaught, pre>>

\* lines 118-122: encoder.finalize(); finalized = true; return encoder.FS.readFile(...)
Mp4Finalize ==
    /\ fn = "mp4" /\ pc = "m_finalize"
    /\ \/ /\ calls' = Append(calls, "encoder.finalize")
          /\ Mp4Throw("encoder")
          /\ UNCHANGED <<local, enc>>
       \/ /\ calls' = calls \o <<"encoder.finalize", "encoder.readFile">>
          /\ enc' = [enc EXCEPT ![1].state = "finalized"]
          /\ local' = [local EXCEPT !.finalized = TRUE]
          /\ \/ /\ pc' = "m_finally" /\ pending' = "return"
                /\ UNCHANGED raised
             \/ Mp4Throw("readFile")
    /\ UNCHANGED <<batch, fn, progress, params, duration, plugin, images, result, ticks, captures, sampled,
                   uncaught, pre>>

\* the encoder freed whether or not it was finalized
DeleteAlways(l) == TRUE

\* line 126: if (finalized) encoder.delete()
ShouldDelete(l) == l.finalized

\* lines 125-132: the finally block; an error thrown by animation.stop() inside it
\* replaces the completion the block was entered with and skips loop.start()
Mp4Finally ==
    /\ fn = "mp4" /\ pc = "m_finally"
    /\ enc' = IF ShouldDelete(local) THEN [enc EXCEPT ![1].state = "deleted"] ELSE enc
    /\ canvasProps' = Restore(Presentation, local, params).canvasProps
    /\ pc' = "done"
    /\ \/ /\ local.stoppedAnimation
          /\ loopIsAnimating' = Restore(Presentation, local, params).loopIsAnimating
          /\ calls' = calls \o (IF ShouldDelete(local) THEN <<"encoder.delete">> ELSE <<>>)
                            \o (IF params.customBackground # NoColor
                                THEN <<"canvas.setProps">> ELSE <<>>)
                            \o (IF local.wasAnimating THEN <<"loop.start">> ELSE <<>>)
          /\ result' = IF pending = "return" THEN "resolved" ELSE "rejected"
          /\ UNCHANGED <<animState, raised>>
       \/ /\ ~local.stoppedAnimation
          /\ animState' = Restore(Presentation, local, params).animState
          /\ loopIsAnimating' = Restore(Presentation, local, params).loopIsAnimating
          /\ calls' = calls \o (IF ShouldDelete(local) THEN <<"encoder.delete">> ELSE <<>>)
                            \o (IF params.customBackground # NoColor
                                THEN <<"canvas.setProps">> ELSE <<>>)
                            \o <<"animation.stop">>
                            \o (IF local.wasAnimating THEN <<"loop.start">> ELSE <<>>)
          /\ result' = IF pending = "return" THEN "resolved" ELSE "rejected"
          /\ UNCHANGED raised
       \/ /\ ~local.stoppedAnimation
          /\ calls' = calls \o (IF ShouldDelete(local) THEN <<"encoder.delete">> ELSE <<>>)
                            \o (IF params.customBackground # NoColor
                                THEN <<"canvas.setProps">> ELSE <<>>)
                            \o <<"animation.stop">>
          /\ result' = "rejected"
          /\ raised' = "stop"
          /\ UNCHANGED <<animState, loopIsAnimating>>
    /\ UNCHANGED <<batch, fn, progress, params, duration, loopTime, rendered, passProps, local, images,
                   pending, ticks, captures, sampled, uncaught, pre>>

Mp4Next ==
    \/ Mp4Initializing \/ Mp4Validate \/ Mp4CreateEncoder \/ Mp4Setup \/ Mp4StopLoop
    \/ Mp4Schedule \/ Mp4Play \/ Mp4Tick \/ Mp4Capture \/ Mp4Update \/ Mp4Finish
    \/ Mp4Finalize \/ Mp4Finally

\* ------------------------------------------------ encodeWebmAnimation
\* (part_003 lines 129-230 as fn = "webm", lines 377-464 as fn = "webmP")
IsWebm == fn \in {"webm", "webmP"}

\* the ffmpeg commands the function starts
Outputs(f) == IF f = "webm" THEN {1, 2} ELSE IF f = "webmP" THEN {1} ELSE {}

\* the quality option of each ffmpeg command: '-crf 50' on the .webm output
\* (part_003:222-224, 450), none on the .mov output (199-209); 0 is the
\* encoder's own default
Crf(f, e) == IF f = "webm" /\ e = 1 THEN 0 ELSE WebmCrf

\* transparentBackground passed with a custom background
WebmTransparent(f) == f = "webm"

\* catch (e) { console.error(e) }: the function's body ends; the async function of
\* lines 129-230 then returns, the Promise of lines 378-463 is left unsettled
WebmCatch(kind) ==
    /\ pc' = "done"
    /\ raised' = kind
    /\ result' = IF fn = "webm" THEN "resolved" ELSE result

\* falling off the end of the try block
WebmReturn ==
    /\ pc' = "done"
    /\ result' = IF fn = "webm" THEN "resolved" ELSE result

\* lines 133-135 / 383-385: ctx.update; if (!params.fps) params.fps = 30
WebmInitializing ==
    /\ IsWebm /\ pc = "init"
    /\ calls' = Append(calls, "ctx.update")
    /\ \/ /\ params' = [params EXCEPT !.fps = EffectiveFps(@)]
          /\ pc' = "w_validate"
          /\ UNCHANGED <<result, raised>>
       \/ /\ WebmCatch("update")
          /\ UNCHANGED params
    /\ UNCHANGED <<batch, fn, progress, duration, plugin, local, images, enc, pending, ticks, captures,
                   sampled, uncaught, pre>>

\* lines 137-141 / 387-391: validateViewport, getDuration
WebmValidate ==
    /\ IsWebm /\ pc = "w_validate"
    /\ \/ /\ ViewportExceeds(params)
          /\ WebmCatch("viewport")
          /\ UNCHANGED local
       \/ /\ ~ViewportExceeds(params) /\ ~duration.defined
          /\ WebmCatch("duration")
          /\ UNCHANGED local
       \/ /\ ~ViewportExceeds(params) /\ duration.defined
          /\ local' = [local EXCEPT !.durationMs = duration.ms]
          /\ pc' = "w_setup"
          /\ UNCHANGED <<result, raised>>
    /\ UNCHANGED <<batch, fn, progress, params, duration, plugin, images, enc, pending, logs, sampled,
                   uncaught, pre>>

\* lines 143-166 / 394-417: normalizedViewport, pass.setProps(merge), loop.stop,
\* loop.resetTime(0), custom background
WebmSetup ==
    /\ IsWebm /\ pc = "w_setup"
    /\ local' = [local EXCEPT !.viewport = NormalizedViewport(params.viewport)]
    /\ passProps' = [postprocessing |-> Merge(passProps.postprocessing, params.postprocessing)]
    /\ loopIsAnimating' = FALSE
    /\ loopTime' = [num |-> 0, den |-> 1]
    /\ IF params.customBackground # NoColor
       THEN /\ canvasProps' = SetBackground(params.customBackground, WebmTransparent(fn))
            /\ calls' = calls \o <<"pass.setProps", "loop.stop", "loop.resetTime",
                                   "canvas.setProps">>
       ELSE /\ UNCHANGED canvasProps
            /\ calls' = calls \o <<"pass.setProps", "loop.stop", "loop.resetTime">>
    /\ pc' = "w_schedule"
    /\ UNCHANGED <<batch, fn, progress, params, duration, rendered, animState, images, enc, result, raised,
                   pending, ticks, captures, sampled, uncaught, pre>>

\* lines 168-173 / 419-424: fps, N, dt, ctx.update, updateBackground
WebmSchedule ==
    /\ IsWebm /\ pc = "w_schedule"
    /\ local' = [local EXCEPT !.fps = params.fps,
                              !.N = SampleCount(local.durationMs, params.fps)]
    /\ calls' = Append(calls, "ctx.update")
    /\ progress' = Declared(SampleCount(local.durationMs, params.fps))
    /\ \/ pc' = "w_play" /\ UNCHANGED <<result, raised>>
       \/ WebmCatch("update")
    /\ UNCHANGED <<batch, fn, params, duration, plugin, images, enc, pending, ticks, captures,
                   sampled, uncaught, pre>>

\* lines 175-176 / 426-427: await animation.play(...); const images = []
WebmPlay ==
    /\ IsWebm /\ pc = "w_play"
    /\ calls' = Append(calls, "animation.play")
    /\ \/ /\ animState' = "playing"
          /\ local' = [local EXCEPT !.i = 0]
          /\ images' = <<>>
          /\ pc' = "w_tick"
          /\ UNCHANGED <<result, raised>>
       \/ /\ WebmCatch("play")
          /\ UNCHANGED <<animState, local, images>>
    /\ UNCHANGED <<batch, fn, progress, params, duration, loopIsAnimating, loopTime, rendered, canvasProps,
                   passProps, enc, pending, ticks, captures, sampled, uncaught, pre>>

\* lines 178-183 / 429-434: the loop condition and await loop.tick(i * dt, {...})
WebmTick ==
    /\ IsWebm /\ pc = "w_tick"
    /\ \/ /\ LoopContinues(local.i, local.N)
          /\ ticks' = Append(ticks, TickArgs(local.i, local.durationMs, local.N))
          /\ calls' = Append(calls, "loop.tick")
          /\ \/ /\ loopTime' = TickTime(local.i, local.durationMs, local.N)
                /\ rendered' = [time |-> TickTime(local.i, local.durationMs, local.N),
                                currentFrame |-> local.i]
                /\ pc' = "w_capture"
                /\ UNCHANGED <<result, raised>>
             \/ /\ WebmCatch("tick")
                /\ UNCHANGED <<loopTime, rendered>>
          /\ UNCHANGED sampled
       \/ /\ ~LoopContinues(local.i, local.N)
          /\ sampled' = TRUE
          /\ pc' = "w_encode"
          /\ UNCHANGED <<loopTime, rendered, ticks, calls, result, raised>>
    /\ UNCHANGED <<batch, fn, progress, params, duration, loopIsAnimating, canvasProps, passProps,
                   animState, local, images, enc, pending, captures, uncaught, pre>>

\* the pass's own buffer kept in the array instead of a copy of it
StoreReference(frame) == [ref |-> "frame.data"]

\* new Uint8Array(frame.data) (lines 186 / 437): a new array holding the bytes the
\* frame has at the time of the call
StoreCopy(frame) == frame

\* the bytes a stored frame yields when it is read: its own, or, were it the pass's
\* buffer, those of the latest capture
Bytes(stored) ==
    IF "ref" \in DOMAIN stored THEN captures[Len(captures)] ELSE stored

\* lines 184-187 / 435-438: getImageData; images.push(new Uint8Array(frame.data)); i++
WebmCapture ==
    /\ IsWebm /\ pc = "w_capture"
    /\ calls' = Append(calls, "pass.getImageData")
    /\ \/ /\ WebmCatch("capture")
          /\ UNCHANGED <<captures, images, local>>
       \/ /\ captures' = Append(captures, ImageData(rendered, local.viewport))
          /\ images' = PushFrame(images, StoreCopy(ImageData(rendered, local.viewport)))
          /\ local' = [local EXCEPT !.i = @ + 1]
          /\ pc' = "w_tick"
          /\ UNCHANGED <<result, raised>>
    /\ UNCHANGED <<batch, fn, progress, params, duration, plugin, enc, pending, ticks, sampled, uncaught,
                   pre>>

\* lines 189-225 / 440-458: ffmpeg(Readable.from(images))...save(...)
WebmEncode ==
    /\ IsWebm /\ pc = "w_encode"
    /\ enc' = [e \in EncoderIds |->
                 IF e \in Outputs(fn)
                 THEN [state |-> "running", received |-> <<>>, width |-> params.width,
                       height |-> params.height, frameRate |-> local.fps,
                       quantizationParameter |-> Crf(fn, e)]
                 ELSE enc[e]]
    /\ calls' = calls \o [e \in 1..Cardinality(Outputs(fn)) |-> "ffmpeg.save"]
    /\ WebmReturn
    /\ UNCHANGED <<batch, fn, progress, params, duration, plugin, local, images, raised, pending, ticks,
                   captures, sampled, uncaught, pre>>

\* one stream that both ffmpeg commands consume
SharedStreamPosition(received) == Len(enc[1].received) + Len(enc[2].received) + 1

\* Readable.from(images), one per ffmpeg command (lines 189, 213 / 440): each
\* stream iterates the array from its start, so the next frame a command reads is
\* the one after those it has received
StreamPosition(received) == Len(received) + 1

\* the ffmpeg process reads the next frame of Readable.from(images)
FfmpegRead(e) ==
    /\ enc[e].state = "running"
    /\ StreamPosition(enc[e].received) <= Len(images)
    /\ enc' = [enc EXCEPT ![e].received = PushFrame(@, Bytes(images[StreamPosition(@)]))]
    /\ UNCHANGED <<batch, fn, progress, params, duration, plugin, pc, local, images, result, raised,
                   pending, logs, sampled, uncaught, pre>>

\* the ffmpeg process exits with code 0: 'end' (lines 210-212 / 455-458: logging only)
FfmpegEnd(e) ==
    /\ enc[e].state = "running"
    /\ StreamPosition(enc[e].received) > Len(images)
    /\ enc' = [enc EXCEPT ![e].state = "ended"]
    /\ UNCHANGED <<batch, fn, progress, params, duration, plugin, pc, local, images, result, raised,
                   pending, logs, sampled, uncaught, pre>>

\* the ffmpeg process fails: 'error' (lines 452-454: reject(err); no listener at 189-225)
FfmpegError(e) ==
    /\ enc[e].state = "running"
    /\ enc' = [enc EXCEPT ![e].state = "error"]
    /\ IF fn = "webmP"
       THEN /\ result' = IF result = "pending" THEN "rejected" ELSE result
            /\ raised' = IF raised = "none" THEN "encoder" ELSE raised
            /\ UNCHANGED uncaught
       ELSE /\ uncaught' = TRUE
            /\ UNCHANGED <<result, raised>>
    /\ UNCHANGED <<batch, fn, progress, params, duration, plugin, pc, local, images, pending, logs,
                   sampled, pre>>

WebmNext ==
    \/ WebmInitializing \/ WebmValidate \/ WebmSetup \/ WebmSchedule \/ WebmPlay
    \/ WebmTick \/ WebmCapture \/ WebmEncode
    \/ \E e \in EncoderIds : FfmpegRead(e) \/ FfmpegEnd(e) \/ FfmpegError(e)

Next == Mp4Next \/ WebmNext

Spec == Init /\ [][Next]_vars


\* ------------------------------------- processFilesInDirectory, exportMovie
\* (src/src/examples/image-renderer/index.ts lines 267-333 and 423-428)
CameraSpin == "built-in.animate-camera-spin"

\* the lookup keeps going with whatever it found
AnimationAssumed(animations) == TRUE

\* plugin.managers.animation.animations.find(a => a.name === '...') is defined
AnimationFound(animations) == CameraSpin \in animations

\* the params object exportMovie builds (lines 278-302): full-canvas viewport, no
\* fps, quantizationParameter 18, the stylized postprocessing, no custom background
MovieParams ==
    [width |-> CanvasSize, height |-> CanvasSize,
     viewport |-> [x |-> 0, y |-> 0, width |-> CanvasSize, height |-> CanvasSize],
     fps |-> 0, quantizationParameter |-> 18, customBackground |-> NoColor,
     postprocessing |-> [k \in {"outline"} |-> "on"]]

\* durationInMs of the camera spin (5000 in the source), scaled to the model
MovieDuration == [defined |-> TRUE, ms |-> DurationStep * MaxDurationSteps]

\* processFile up to the call of exportMovie (lines 335-425): a new plugin, and a
\* new job whose state starts empty
FreshJob(anims, animating) ==
    /\ fn' = "webm"
    /\ params' = MovieParams
    /\ duration' = MovieDuration
    /\ loopIsAnimating' = animating
    /\ loopTime' = [num |-> 0, den |-> 1]
    /\ rendered' = [time |-> [num |-> 0, den |-> 1], currentFrame |-> -1]
    /\ canvasProps' = [backgroundColor |-> "black", transparentBackground |-> FALSE]
    /\ passProps' = [postprocessing |-> PassPostprocessing]
    /\ animState' = "stopped"
    /\ pc' = "caller"
    /\ local' = InitLocal
    /\ images' = <<>>
    /\ enc' = [e \in EncoderIds |-> NoEncoder]
    /\ result' = "pending"
    /\ raised' = "none"
    /\ pending' = "none"
    /\ ticks' = <<>>
    /\ captures' = <<>>
    /\ calls' = <<>>
    /\ sampled' = FALSE
    /\ progress' = [max |-> 0, reported |-> <<>>]
    /\ pre' = [isAnimating |-> animating,
               canvas |-> [backgroundColor |-> "black", transparentBackground |-> FALSE],
               postprocessing |-> PassPostprocessing, fps |-> 0]

BatchInit ==
    /\ fn = "webm"
    /\ params = MovieParams
    /\ duration = MovieDuration
    /\ loopIsAnimating \in BOOLEAN
    /\ loopTime = [num |-> 0, den |-> 1]
    /\ rendered = [time |-> [num |-> 0, den |-> 1], currentFrame |-> -1]
    /\ canvasProps = [backgroundColor |-> "black", transparentBackground |-> FALSE]
    /\ passProps = [postprocessing |-> PassPostprocessing]
    /\ animState = "stopped"
    /\ pc = "caller"
    /\ local = InitLocal
    /\ images = <<>>
    /\ enc = [e \in EncoderIds |-> NoEncoder]
    /\ result = "pending"
    /\ raised = "none"
    /\ pending = "none"
    /\ ticks = <<>>
    /\ captures = <<>>
    /\ calls = <<>>
    /\ sampled = FALSE
    /\ progress = [max |-> 0, reported |-> <<>>]
    /\ uncaught = FALSE
    /\ batch \in [file : {1}, animations : {{}, {CameraSpin}}, disposed : {{}},
                  prior : {<<>>}]
    /\ pre = [isAnimating |-> loopIsAnimating, canvas |-> canvasProps,
              postprocessing |-> PassPostprocessing, fps |-> 0]

\* exportMovie lines 268-278: find the animation, throw if there is none, else call
\* encodeWebmAnimation; the throw rejects runTask, exportMovie, processFile and
\* processFilesInDirectory in turn
ExportMovie ==
    /\ pc = "caller" /\ ~uncaught
    /\ IF AnimationFound(batch.animations)
       THEN pc' = "init" /\ UNCHANGED <<result, raised>>
       ELSE pc' = "failed" /\ result' = "rejected" /\ raised' = "animation"
    /\ UNCHANGED <<batch, fn, params, duration, plugin, local, images, enc, pending,
                   logs, sampled, progress, uncaught, pre>>

\* processFile lines 425-427: exportMovie has returned; plugin.clear(); plugin.dispose()
ProcessFileDispose ==
    /\ pc = "done" /\ result = "resolved" /\ ~uncaught
    /\ batch.file > 0
    /\ batch' = [batch EXCEPT !.disposed = @ \cup {batch.file}]
    /\ pc' = "disposed"
    /\ UNCHANGED <<fn, params, duration, plugin, local, images, enc, result, raised,
                   pending, logs, sampled, progress, uncaught, pre>>

\* processFilesInDirectory lines 315-324: the next file of the directory; the ffmpeg
\* processes of the files before it are left to themselves
ProcessNextFile ==
    /\ pc = "disposed" /\ ~uncaught
    /\ batch.file < MaxFiles
    /\ \E anims \in {{}, {CameraSpin}}, animating \in BOOLEAN :
          /\ batch' = [batch EXCEPT !.file = @ + 1,
                                    !.animations = anims,
                                    !.prior = Append(@, [e \in EncoderIds |-> enc[e].state])]
          /\ FreshJob(anims, animating)
    /\ UNCHANGED uncaught

\* an ffmpeg process of an earlier file reads the rest of its stream and exits with
\* code 0; nothing in the program observes the frames it reads on the way
PriorFfmpegEnd(f, e) ==
    /\ f \in 1..Len(batch.prior)
    /\ batch.prior[f][e] = "running"
    /\ batch' = [batch EXCEPT !.prior[f][e] = "ended"]
    /\ UNCHANGED <<fn, params, duration, plugin, pc, local, images, enc, result, raised,
                   pending, logs, sampled, progress, uncaught, pre>>

\* an ffmpeg process of an earlier file fails: 'error' with no listener
\* (part_003:189-225), an uncaught exception that ends the node process
PriorFfmpegError(f, e) ==
    /\ f \in 1..Len(batch.prior)
    /\ batch.prior[f][e] = "running"
    /\ batch' = [batch EXCEPT !.prior[f][e] = "error"]
    /\ uncaught' = TRUE
    /\ pc' = "crashed"
    /\ UNCHANGED <<fn, params, duration, plugin, local, images, enc, result, raised,
                   pending, logs, sampled, progress, pre>>

BatchNext ==
    \/ ExportMovie \/ ProcessFileDispose \/ ProcessNextFile
    \/ WebmInitializing \/ WebmValidate \/ WebmSetup \/ WebmSchedule \/ WebmPlay
    \/ WebmTick \/ WebmCapture \/ WebmEncode
    \/ \E e \in EncoderIds : FfmpegRead(e) \/ FfmpegEnd(e) \/ FfmpegError(e)
    \/ \E f \in 1..MaxFiles, e \in EncoderIds :
          PriorFfmpegEnd(f, e) \/ PriorFfmpegError(f, e)

BatchSpec == BatchInit /\ [][BatchNext]_vars

\* ------------------------------------------------------------- claims
Called(name) == \E j \in 1..Len(calls) : calls[j] = name

JobEnded == pc = "done"

\* the job got past validateViewport and the duration check
PastValidation == Called("createEncoder") \/ Called("pass.setProps")

\* animation.play was called and resolved
PlayResolved == Called("animation.play") /\ raised # "play"

\* the frame rate the job asked for, 30 when it asked for none
RequestedFps == IF pre.fps # 0 THEN pre.fps ELSE DefaultFps

\* C1: a job whose viewport exceeds the canvas fails with an error to its caller,
\* with no loop.tick and no pass.getImageData call made.
C1_InvalidViewportFails ==
    (JobEnded /\ raised = "viewport")
        => (result = "rejected" /\ ticks = <<>> /\ captures = <<>>
            /\ ~Called("loop.tick") /\ ~Called("pass.getImageData"))

\* C2: on every exit path of a job that got past validation, background colour,
\* transparentBackground and the pass's postprocessing props equal their values
\* from before the job.
C2_PresentationRestored ==
    (JobEnded /\ PastValidation)
        => (canvasProps = pre.canvas /\ passProps.postprocessing = pre.postprocessing)

\* C3: after a job has ended, on any exit path, the animation loop is running
\* if and only if it was running when the job started.
C3_ClockRestored == JobEnded => (loopIsAnimating = pre.isAnimating)

\* C4: whenever a job started playback (animation.play resolved), animation.stop
\* has been called by the time the job ends.
C4_PlaybackStopped == (JobEnded /\ PlayResolved) => Called("animation.stop")

\* C5: N = ceil(durationMs / 1000 * fps), and a sampling loop that ran to completion
\* made exactly N + 1 ticks and captured exactly N + 1 frames, one frame per tick,
\* none skipped or duplicated.
C5_SampleCount ==
    sampled =>
        /\ local.N * MsPerSecond >= duration.ms * RequestedFps
        /\ (local.N - 1) * MsPerSecond < duration.ms * RequestedFps
        /\ Len(ticks) = local.N + 1
        /\ Len(captures) = local.N + 1
        /\ \A k \in 1..Len(captures) :
              /\ ticks[k].currentFrame = k - 1
              /\ captures[k].currentFrame = k - 1

C5_Witness ==
    /\ sampled
    /\ duration.ms * RequestedFps = 3 * MsPerSecond
    /\ Len(ticks) = 4 /\ Len(captures) = 4

\* C6: the k-th tick's timestamp is exactly k * (durationMs / N), with the
\* synchronous and manual-draw flags set; timestamps are strictly increasing,
\* the first is 0 and, once sampling is complete, the last is durationMs.
C6_TickTimes ==
    /\ \A k \in 1..Len(ticks) :
          /\ ticks[k].isSynchronous /\ ticks[k].manualDraw
          /\ ticks[k].time.den # 0
          /\ ticks[k].time.num * local.N = (k - 1) * duration.ms * ticks[k].time.den
    /\ \A k \in 1..(Len(ticks) - 1) :
          ticks[k].time.num * ticks[k + 1].time.den
              < ticks[k + 1].time.num * ticks[k].time.den
    /\ ticks # <<>> => ticks[1].time.num = 0
    /\ sampled => ticks[Len(ticks)].time.num = duration.ms * ticks[Len(ticks)].time.den

TickOrCapture(c) == c \in {"loop.tick", "pass.getImageData"}

\* C7: ticks and captures strictly alternate (tick 0, capture 0, tick 1, ...), each
\* capture is of the scene its tick drew, and every encoder receives the captured
\* frames in sample-index order 0, 1, ..., none reordered, dropped or duplicated,
\* all N + 1 of them by the time it finishes.
C7_TickCaptureOrder ==
    /\ LET sel == SelectSeq(calls, TickOrCapture)
       IN \A j \in 1..Len(sel) :
              sel[j] = IF j % 2 = 1 THEN "loop.tick" ELSE "pass.getImageData"
    /\ \A k \in 1..Len(captures) : captures[k].currentFrame = ticks[k].currentFrame
    /\ \A e \in EncoderIds :
          /\ Len(enc[e].received) <= Len(captures)
          /\ \A j \in 1..Len(enc[e].received) :
                /\ enc[e].received[j].currentFrame = j - 1
                /\ enc[e].received[j] = captures[j]
          /\ enc[e].state \in {"finalized", "deleted", "ended"}
                => Len(enc[e].received) = local.N + 1

C7_Witness ==
    /\ fn = "webm"
    /\ enc[1].state = "ended" /\ enc[2].state = "ended"
    /\ Len(enc[1].received) = 4 /\ Len(enc[2].received) = 4

\* C8: every error raised in a job is re-raised to the caller of the export
\* function: a job in which an error was raised ends with its promise rejected.
C8_ErrorsReRaised == (JobEnded /\ raised # "none") => result = "rejected"

\* the encoder reported a failure while consuming the frame sequence
EncoderFailed ==
    \/ raised = "encoder"
    \/ \E e \in EncoderIds : enc[e].state = "error"

\* C9: when the encoder fails partway through the frames, the job ends in a failure
\* visible to its caller, with background and transparency reset, playback stopped
\* and the clock running again if it ran before.
C9_EncoderFailureSurfaced ==
    (JobEnded /\ EncoderFailed)
        => /\ result = "rejected"
           /\ canvasProps = pre.canvas
           /\ animState = "stopped"
           /\ loopIsAnimating = pre.isAnimating

\* C10: when getDuration returns undefined the export fails with an error to its
\* caller, and no loop.tick, pass.getImageData or animation.play call is made.
C10_UndefinedDurationFails ==
    (JobEnded /\ raised = "duration")
        => (result = "rejected" /\ ~Called("loop.tick")
            /\ ~Called("pass.getImageData") /\ ~Called("animation.play"))

\* the encoders the job created
Created(e) == enc[e].state # "none"

\* C11: the normalized viewport is the job's viewport with an odd width / height
\* reduced by 1 (x and y unchanged), every frame is captured at these dimensions
\* and every encoder the job creates is declared the same frame size.
C11_NormalizedDimensions ==
    /\ \A k \in 1..Len(captures) :
          /\ captures[k].width = params.viewport.width - (params.viewport.width % 2)
          /\ captures[k].height = params.viewport.height - (params.viewport.height % 2)
          /\ local.viewport.x = params.viewport.x
          /\ local.viewport.y = params.viewport.y
    /\ \A e \in EncoderIds :
          Created(e) =>
              /\ enc[e].width = params.viewport.width - (params.viewport.width % 2)
              /\ enc[e].height = params.viewport.height - (params.viewport.height % 2)

\* fps and N have been computed (lines 96-98 of encoder.ts, 168-170 of part_003)
ScheduleComputed ==
    \/ pc \in {"m_play", "m_tick", "m_capture", "m_update", "m_finish", "m_finalize",
               "w_play", "w_tick", "w_capture", "w_encode"}
    \/ Called("animation.play")

\* C12: when the job sets no frame rate, the schedule is computed with 30 frames
\* per second and every encoder of the job is given the frame rate 30.
C12_DefaultFrameRate ==
    pre.fps = 0 =>
        /\ ScheduleComputed =>
              /\ local.fps = 30
              /\ local.N * 1000 >= duration.ms * 30
              /\ (local.N - 1) * 1000 < duration.ms * 30
        /\ \A e \in EncoderIds : Created(e) => enc[e].frameRate = 30

C12_Witness ==
    /\ pre.fps = 0 /\ sampled /\ local.N = 3
    /\ \E e \in EncoderIds : Created(e) /\ Len(enc[e].received) = 4

\* the job is between its first tick and its last capture
Sampling == pc \in {"m_tick", "m_capture", "m_update", "w_tick", "w_capture"}

\* C13: while a job that supplies a customBackground is sampling, the canvas shows
\* that colour with transparentBackground false, in every export entry point.
C13_CustomBackgroundOpaque ==
    (params.customBackground # NoColor /\ Sampling)
        => /\ canvasProps.backgroundColor = params.customBackground
           /\ canvasProps.transparentBackground = FALSE

\* the handle has been freed (encoder.delete()) or the ffmpeg process has exited
Disposed(e) == enc[e].state \in {"deleted", "ended", "error"}

\* C14: after a job has ended, on any exit path, every encoder the job created has
\* been disposed: the in-process encoder deleted, the ffmpeg processes exited.
C14_EncoderDisposed ==
    JobEnded => \A e \in EncoderIds : Created(e) => Disposed(e)

CallCount(name) == Cardinality({j \in 1..Len(calls) : calls[j] = name})

\* C15: the task reaches its cancellation / progress point once per sample, after
\* each capture (N + 1 times when sampling completes), and a job cancelled at such
\* a point ends with the presentation state, playback and clock restored.
C15_CancellationPoint ==
    /\ CallCount("ctx.shouldUpdate") <= Len(captures)
    /\ Len(captures) <= CallCount("ctx.shouldUpdate") + 1
    /\ sampled => CallCount("ctx.shouldUpdate") = local.N + 1
    /\ (JobEnded /\ raised = "update" /\ captures # <<>>)
          => /\ canvasProps = pre.canvas
             /\ passProps.postprocessing = pre.postprocessing
             /\ animState = "stopped"
             /\ loopIsAnimating = pre.isAnimating

\* nothing of the job can still run: the body has ended and no ffmpeg process is left
Quiescent == JobEnded /\ \A e \in EncoderIds : enc[e].state # "running"

\* the encoder has finished writing its output
FinishedWriting(e) == enc[e].state \in {"finalized", "deleted", "ended"}

\* C16: every started job reports success or failure to its caller (once nothing of
\* the job can still run, its promise has settled), and it reports success only
\* after every encoder it started has finished writing its output.
C16_JobSettles ==
    /\ Quiescent => result # "pending"
    /\ result = "resolved" => \A e \in EncoderIds : Created(e) => FinishedWriting(e)

\* C19: every encoder of a job is given the frame rate the sample schedule was
\* computed with, and the job's quantizationParameter whenever the job supplies one.
C19_EncoderConfiguration ==
    \A e \in EncoderIds :
        Created(e) =>
            /\ ScheduleComputed => enc[e].frameRate = local.fps
            /\ params.quantizationParameter # 0
                  => enc[e].quantizationParameter = params.quantizationParameter

\* C20: every job that reaches the schedule computation has sampleCount N >= 1 and
\* stepMs = durationMs / N > 0.
C20_ScheduleInvariant ==
    ScheduleComputed =>
        /\ local.N >= 1
        /\ local.durationMs > 0

\* an ffmpeg process started for the file is still encoding
Encoding(states) == \E e \in EncoderIds : states[e] = "running"

\* C17: in processFilesInDirectory jobs never overlap: once the next file's job has
\* begun (new plugin, sampling, encoding) no encoder of an earlier file is still
\* running, and plugin.clear()/dispose() of a file has not run while that file's
\* job is still encoding.
C17_JobsSequential ==
    /\ \A f \in 1..Len(batch.prior) : ~Encoding(batch.prior[f])
    /\ batch.file \in batch.disposed => ~Encoding([e \in EncoderIds |-> enc[e].state])

\* C18: when 'built-in.animate-camera-spin' is not among the plugin's animations,
\* exportMovie never gets past the lookup except by failing with the error, and
\* the export function is not invoked: no call on the plugin, no tick, no capture,
\* no encoder started.
C18_AnimationNotFound ==
    (batch.file > 0 /\ CameraSpin \notin batch.animations) =>
        /\ pc \in {"caller", "failed", "crashed"}
        /\ pc = "failed" => (result = "rejected" /\ raised = "animation")
        /\ ticks = <<>> /\ captures = <<>> /\ calls = <<>>
        /\ images = <<>>
        /\ \A e \in EncoderIds : ~Created(e)

C18_Witness ==
    /\ batch.file > 0 /\ CameraSpin \notin batch.animations
    /\ pc = "failed" /\ result = "rejected" /\ raised = "animation"

\* C21: the restoration of the finally block is idempotent: applied twice in a row
\* to the state the block is entered with, it leaves the same background,
\* transparency, playback and clock state as applied once.
C21_RestoreIdempotent ==
    (fn = "mp4" /\ pc = "m_finally")
        => Restore(Restore(Presentation, local, params), local, params)
               = Restore(Presentation, local, params)

C21_Witness ==
    /\ fn = "mp4" /\ pc = "m_finally"
    /\ params.customBackground # NoColor /\ ~local.stoppedAnimation /\ local.wasAnimating
    /\ Restore(Presentation, local, params).canvasProps # canvasProps
    /\ Restore(Presentation, local, params).animState # animState
    /\ Restore(Presentation, local, params).loopIsAnimating # loopIsAnimating

\* C22: in the job that writes outputFilename + '.mov' and outputFilename + '.webm'
\* both encoders are started together and each is fed the captured frames from the
\* first one on, in sample-index order; an encoder that has read its stream to the
\* end has received all N + 1 of them, however the two encoders' reads interleave.
C22_OutputsSameFrames ==
    fn = "webm" =>
        /\ Created(1) <=> Created(2)
        /\ \A e \in Outputs(fn) :
              /\ Len(enc[e].received) <= Len(images)
              /\ \A j \in 1..Len(enc[e].received) :
                    /\ enc[e].received[j] = images[j]
                    /\ enc[e].received[j] = captures[j]
                    /\ enc[e].received[j].currentFrame = j - 1
              /\ enc[e].state = "ended" => Len(enc[e].received) = local.N + 1
        /\ (enc[1].state = "ended" /\ enc[2].state = "ended")
              => enc[1].received = enc[2].received

C22_Witness ==
    /\ fn = "webm" /\ local.N = 3
    /\ enc[2].state = "ended" /\ Len(enc[2].received) = 4
    /\ enc[1].state = "running" /\ Len(enc[1].received) = 1

\* C23: when the encoder of encodeMp4Animation cannot be created or initialized the
\* job fails with an error, no tick and no capture has been made, and the pass
\* postprocessing, canvas background and transparency, loop running state and
\* playback state are what they were before the call.
C23_EncoderUnavailable ==
    (fn = "mp4" /\ raised = "encoderUnavailable")
        => /\ pc = "done" /\ result = "rejected"
           /\ ticks = <<>> /\ captures = <<>>
           /\ ~Called("loop.tick") /\ ~Called("pass.getImageData")
           /\ passProps.postprocessing = pre.postprocessing
           /\ canvasProps = pre.canvas
           /\ loopIsAnimating = pre.isAnimating
           /\ animState = "stopped"

C23_Witness ==
    /\ fn = "mp4" /\ raised = "encoderUnavailable" /\ result = "rejected"
    /\ enc[1].state = "created"
    /\ params.customBackground # NoColor /\ params.postprocessing # NoOverride
    /\ pre.isAnimating

\* positions in the call log at which the named call was made
CallsAt(name) == {j \in 1..Len(calls) : calls[j] = name}

\* the canvas3d.setProps calls that put the saved background back: every one after
\* the first, which applied the custom background
RestoringSetProps ==
    {j \in CallsAt("canvas.setProps") : \E k \in CallsAt("canvas.setProps") : k < j}

\* C26: on every exit path the restoration is ordered: playback is stopped first
\* (if it is still running), then background and transparency are put back, and
\* only then is the clock resumed.
C26_RestorationOrder ==
    JobEnded =>
        /\ \A r \in RestoringSetProps : \A t \in CallsAt("animation.stop") : t < r
        /\ \A c \in CallsAt("loop.start") :
              /\ \A r \in RestoringSetProps : r < c
              /\ \A t \in CallsAt("animation.stop") : t < c

\* C27: an export that fails validation (viewport) or for an undefined duration has
\* mutated nothing: pass props, canvas props, loop running state, playback state
\* and params.fps equal their values from before the call, and no encoder exists.
C27_NoMutationOnValidationFailure ==
    (JobEnded /\ raised \in {"viewport", "duration"})
        => /\ passProps.postprocessing = pre.postprocessing
           /\ canvasProps = pre.canvas
           /\ loopIsAnimating = pre.isAnimating
           /\ animState = "stopped"
           /\ params.fps = pre.fps
           /\ \A e \in EncoderIds : ~Created(e)

\* the calls that hand the frames over for writing the output
Handover(c) == c \in {"encoder.finalize", "ffmpeg.save"}

\* C28: the steps of a job are ordered: the clock is stopped and reset to 0 before
\* the overrides (postprocessing merge, custom background) are applied, these
\* before animation.play, play before the first tick; and animation.stop is called
\* after the last capture and before the encoder is finalized or handed the frames.
C28_StepOrder ==
    /\ \A o \in CallsAt("pass.setProps") \cup CallsAt("canvas.setProps") :
          /\ \E c \in CallsAt("loop.stop") : c < o
          /\ \E c \in CallsAt("loop.resetTime") : c < o
    /\ \A q \in CallsAt("animation.play") :
          /\ \E o \in CallsAt("pass.setProps") : o < q
          /\ \A o \in CallsAt("pass.setProps") : o < q
          /\ \A t \in CallsAt("loop.tick") : q < t
    /\ \A h \in {j \in 1..Len(calls) : Handover(calls[j])} :
          \E t \in CallsAt("animation.stop") :
              /\ t < h
              /\ \A g \in CallsAt("pass.getImageData") : g < t

\* encodeMp4Animation is between loop.stop() and the end of its finally block
InTryBlock ==
    pc \in {"m_schedule", "m_play", "m_tick", "m_capture", "m_update", "m_finish",
            "m_finalize", "m_finally"}

\* C29: in encodeMp4Animation the real-time loop is not running at any tick or
\* capture: from loop.stop() to the finally block loop.start() has not been called
\* and the loop is stopped; loop.start() is called at most once per job, as the
\* job's last call.
C29_LoopStoppedWhileSampling ==
    fn = "mp4" =>
        /\ InTryBlock => (~loopIsAnimating /\ ~Called("loop.start"))
        /\ CallCount("loop.start") <= 1
        /\ \A c \in CallsAt("loop.start") :
              /\ c = Len(calls) /\ JobEnded
              /\ \E t \in CallsAt("loop.stop") : t < c
              /\ \A t \in CallsAt("loop.tick") \cup CallsAt("pass.getImageData") : t < c

C29_Witness ==
    /\ fn = "mp4" /\ JobEnded /\ pre.isAnimating
    /\ Called("loop.start") /\ loopIsAnimating
    /\ Len(captures) = 4

\* C30: in encodeMp4Animation animation.stop() has been called by the end of every
\* job in which animation.play() resolved, is never called when play() was not
\* reached or did not resolve, and is not called again after a call to it has
\* succeeded; until the job ends, stoppedAnimation is false exactly while the
\* playback the job started has not been stopped.
C30_StopCalledOnce ==
    fn = "mp4" =>
        /\ (JobEnded /\ PlayResolved) => Called("animation.stop")
        /\ Called("animation.stop") => (Called("animation.play") /\ raised # "play")
        /\ CallCount("animation.stop") <= 2
        /\ CallCount("animation.stop") = 2 => raised = "stop"
        /\ ~JobEnded => (local.stoppedAnimation <=> animState = "stopped")

C30_Witness ==
    /\ fn = "mp4" /\ JobEnded /\ raised = "capture"
    /\ CallCount("animation.stop") = 1 /\ animState = "stopped"
    /\ Len(ticks) = 2

\* the calls made on the in-process encoder other than delete
EncoderUse(c) == c \in {"encoder.addFrameRgba", "encoder.finalize", "encoder.readFile"}

\* C31: in encodeMp4Animation encoder.delete() is called at most once, only after
\* encoder.finalize() has returned, on the success path only after the output was
\* read with encoder.FS.readFile, and no addFrameRgba, finalize or readFile call
\* is made on the encoder after it was deleted.
C31_DeleteAfterFinalize ==
    fn = "mp4" =>
        /\ CallCount("encoder.delete") <= 1
        /\ Called("encoder.delete") <=> enc[1].state = "deleted"
        /\ \A d \in CallsAt("encoder.delete") :
              /\ local.finalized
              /\ \E f \in CallsAt("encoder.finalize") : f < d
              /\ result = "resolved" => \E r \in CallsAt("encoder.readFile") : r < d
              /\ \A u \in {j \in 1..Len(calls) : EncoderUse(calls[j])} : u < d
        /\ result = "resolved" => Called("encoder.delete")

C31_Witness ==
    /\ fn = "mp4" /\ JobEnded /\ result = "resolved"
    /\ enc[1].state = "deleted" /\ Called("encoder.delete")
    /\ Len(enc[1].received) = 4

\* C32: in encodeWebmAnimation every captured frame is stored as its own copy: at
\* any later time the k-th stored frame still holds the bytes of the k-th capture,
\* whatever was ticked or captured since; and the encoders are started only after
\* all N + 1 frames have been captured.
C32_FramesCopied ==
    IsWebm =>
        /\ Len(images) = Len(captures)
        /\ \A k \in 1..Len(images) : Bytes(images[k]) = captures[k]
        /\ \A e \in EncoderIds :
              Created(e) => (sampled /\ Len(images) = local.N + 1)
        /\ \A h \in CallsAt("ffmpeg.save") :
              /\ \A g \in CallsAt("pass.getImageData") : g < h
              /\ CallCount("pass.getImageData") = local.N + 1

C32_Witness ==
    /\ fn = "webmP" /\ local.N = 3
    /\ Len(images) = 4
    /\ enc[1].state = "running" /\ Len(enc[1].received) = 2
    /\ Bytes(images[1]) # Bytes(images[4])

\* C33: the progress encodeMp4Animation reports while rendering is consistent: the
\* declared maximum is N + 1, the first value is 0, every value reported after a
\* capture is the number of frames captured so far (i + 1), so the values are
\* strictly increasing and never exceed the maximum.
C33_ProgressConsistent ==
    (fn = "mp4" /\ progress.reported # <<>>) =>
        /\ progress.max = local.N + 1
        /\ progress.reported[1] = 0
        /\ \A k \in 2..Len(progress.reported) :
              /\ progress.reported[k] \in 1..Len(captures)
              /\ progress.reported[k - 1] < progress.reported[k]
        /\ \A k \in 1..Len(progress.reported) : progress.reported[k] <= progress.max
        /\ (pc = "m_tick" /\ calls[Len(calls)] = "ctx.update")
              => /\ progress.reported[Len(progress.reported)] = Len(captures)
                 /\ progress.reported[Len(progress.reported)] = local.i

C33_Witness ==
    /\ fn = "mp4" /\ local.N = 3
    /\ progress.max = 4
    /\ progress.reported = <<0, 1, 3, 4>>

====
